---- MODULE Spec2Model ----
(***************************************************************************)
(* Model of deltametrics/section.py: a Section (PathSection or             *)
(* StrikeSection) that is connected to cubes, sliced by variable name into *)
(* Section Variables, and the display projections of those variables.      *)
(*                                                                         *)
(* Conventions.  A numpy 1-D array is a sequence; a 2-D array is a         *)
(* sequence of rows.  Python index k is TLA+ index k+1.  Python None is    *)
(* carried by a flag next to the field (coordsNone for _x/_y/_s/_z,        *)
(* cube = NoCube for self.cube), because a sequence cannot be compared     *)
(* with a non-sequence.  Distances are fixed-point numbers with Scale      *)
(* units per grid cell (np.sqrt is a floor square root at that scale).     *)
(***************************************************************************)
EXTENDS Integers, Sequences, FiniteSets, TLC

\* ------------------------------------------------------------------ bounds
MaxPathLen == 3
MaxShortPath == 1
MaxCoord == 1
Scale == 100

\* --------------------------------------------------------------- utilities
RECURSIVE SumSeq(_)
SumSeq(q) == IF q = <<>> THEN 0 ELSE q[1] + SumSeq(Tail(q))

SeqMax(q) == CHOOSE m \in {q[i] : i \in DOMAIN q} : \A i \in DOMAIN q : q[i] <= m

SetMin(S) == CHOOSE m \in S : \A e \in S : m <= e

SetMax(S) == CHOOSE m \in S : \A e \in S : e <= m

RECURSIVE Flatten(_)
Flatten(A) == IF A = <<>> THEN <<>> ELSE A[1] \o Flatten(Tail(A))

Rows(A) == Len(A)

Cols(A) == IF A = <<>> THEN 0 ELSE Len(A[1])

Cells(A) == {A[r][c] : r \in 1..Rows(A), c \in 1..Cols(A)}

\* floor(sqrt(n)) by bisection on lo..hi, lo*lo <= n < (hi+1)*(hi+1)
RECURSIVE ISqrt(_, _, _)
ISqrt(n, lo, hi) ==
    IF lo >= hi THEN lo
    ELSE LET mid == (lo + hi + 1) \div 2
         IN  IF mid * mid <= n THEN ISqrt(n, mid, hi) ELSE ISqrt(n, lo, mid - 1)

\* np.sqrt of an integer, in fixed point
Sqrt(n) == ISqrt(n * Scale * Scale, 0, (n + 1) * Scale)

\* ------------------------------------------------- the cubes (collaborator)
NoCube == 0

CubeIds == 1..6

\* kind: the concrete type of the object handed to connect
Cubes ==
    <<[kind |-> "DataCube", knows_stratigraphy |-> TRUE,
       variables |-> {"eta", "velocity"}, nx |-> 2, ny |-> 2, z |-> <<0, 1, 2>>],
      [kind |-> "DataCube", knows_stratigraphy |-> FALSE,
       variables |-> {"eta", "velocity"}, nx |-> 3, ny |-> 2, z |-> <<0, 5>>],
      [kind |-> "StratigraphyCube", knows_stratigraphy |-> FALSE,
       variables |-> {"eta", "velocity"}, nx |-> 2, ny |-> 2, z |-> <<10, 20>>],
      [kind |-> "OtherCube", knows_stratigraphy |-> FALSE,
       variables |-> {"eta"}, nx |-> 2, ny |-> 2, z |-> <<0, 1>>],
      [kind |-> "DataCube", knows_stratigraphy |-> FALSE,
       variables |-> {"velocity"}, nx |-> 2, ny |-> 3, z |-> <<0, 3>>],
      [kind |-> "NotACube", knows_stratigraphy |-> FALSE,
       variables |-> {}, nx |-> 0, ny |-> 0, z |-> <<>>]>>

VarNames == {"eta", "velocity", "nosuchvar"}

\* issubclass(type(CubeInstance), cube.BaseCube)
IsBaseCube(c) == Cubes[c].kind \in {"DataCube", "StratigraphyCube", "OtherCube"}

NZ(c) == Len(Cubes[c].z)

\* cube[var][t, y, x] (0-based t, y, x); every cell of a cube is distinct
CubeData(c, var, t, y, x) ==
    1000 * c + (IF var = "velocity" THEN 500 ELSE 0) + 100 * t + 10 * y + x + 1

\* cube[var]: fails for a name the cube does not hold
CubeHasVar(c, var) == var \in Cubes[c].variables

\* cube.strat_attr.psvd_idx[t, y, x]: the preserved voxels of cube 1
PsvdTable ==
    <<  << <<TRUE, FALSE>>, <<TRUE, TRUE>> >>,
        << <<TRUE, FALSE>>, <<FALSE, TRUE>> >>,
        << <<TRUE, FALSE>>, <<FALSE, FALSE>> >>  >>

CubePsvd(c, t, y, x) == PsvdTable[t + 1][y + 1][x + 1]

\* elevation arrays of the stratigraphy attributes
CubeStrata(c, t, y, x) == 10 * t + 2 * y + x + 1

CubePsvdFlld(c, t, y, x) == 10 * t + 3 * y + x + 2

\* fancy indexing A[:, ys, xs] is in range (non-negative indices only)
InRange(c, ys, xs) ==
    /\ \A i \in DOMAIN xs : xs[i] < Cubes[c].nx
    /\ \A i \in DOMAIN ys : ys[i] < Cubes[c].ny

\* ------------------------------------------------------------------- state
VARIABLES
    secType,     \* "Path" or "Strike": the class of the section
    _path,       \* PathSection._path: sequence of pairs <<column 0, column 1>>
    y,           \* StrikeSection.y
    cube,        \* BaseSection.cube: NoCube or a cube id
    _variables,  \* BaseSection._variables ({} while cube is None)
    coordsNone,  \* TRUE while _x, _y, _s, _z are all None
    _x, _y, _s, _z,
    bound,       \* history: the cube of the most recent connect that returned
    sv,          \* the Section Variable last returned by section[var]
    ret          \* the outcome of the last call

vars == <<secType, _path, y, cube, _variables, coordsNone, _x, _y, _s, _z, bound, sv, ret>>

secVars == <<secType, _path, y, cube, _variables, coordsNone, _x, _y, _s, _z, bound>>

Coord == 0..MaxCoord

Points == Coord \X Coord

RECURSIVE SeqsUpTo(_, _)
SeqsUpTo(S, n) ==
    IF n = 0 THEN {<<>>}
    ELSE LET shorter == SeqsUpTo(S, n - 1)
         IN  shorter \cup {Append(q, e) : q \in {p \in shorter : Len(p) = n - 1}, e \in S}

Paths == SeqsUpTo(Points, MaxPathLen)

ShortPaths == SeqsUpTo(Points, MaxShortPath)

NoValue == "NoValue"

NoSV ==
    [variant |-> "None", knows |-> FALSE, hasFlag |-> FALSE, sNone |-> FALSE, data |-> <<>>,
     s |-> <<>>, z |-> <<>>, S |-> <<>>, Z |-> <<>>,
     maskNone |-> TRUE, psvd_mask |-> <<>>, strat_attr |-> <<>>]

Outcome(op, arg, status, value) ==
    [op |-> op, arg |-> arg, status |-> status, value |-> value]

\* BaseSection.__init__ with no positional argument, for a PathSection whose
\* path is drawn from paths or a StrikeSection
InitWith(paths) ==
    /\ \/ secType = "Path" /\ _path \in paths /\ y = 0
       \/ secType = "Strike" /\ _path = <<>> /\ y \in Coord
    /\ cube = NoCube
    /\ _variables = {}
    /\ coordsNone = TRUE
    /\ _x = <<>> /\ _y = <<>> /\ _s = <<>> /\ _z = <<>>
    /\ bound = NoCube
    /\ sv = NoSV
    /\ ret = Outcome("__init__", NoValue, "ok", NoValue)

Init == InitWith(ShortPaths)

InitCoords == InitWith(Paths)

\* ------------------------------------------------------ coordinate generator
\* PathSection._compute_section_coords
PathX(path) == [i \in 1..Len(path) |-> path[i][2]]

PathY(path) == [i \in 1..Len(path) |-> path[i][1]]

\* StrikeSection._compute_section_coords: np.arange(_nx), np.tile(self.y, _nx)
StrikeX(nx) == [i \in 1..nx |-> i - 1]

StrikeY(y0, nx) == [i \in 1..nx |-> y0]

\* the np.hstack((0, np.sqrt(dx**2 + dy**2))) of _compute_section_attrs
StepLengths(xs, ys) ==
    <<0>> \o [i \in 1..(Len(xs) - 1) |->
                Sqrt((xs[i + 1] - xs[i]) * (xs[i + 1] - xs[i])
                     + (ys[i + 1] - ys[i]) * (ys[i + 1] - ys[i]))]

\* np.cumsum
CumSum(q) == [i \in 1..Len(q) |-> SumSeq(SubSeq(q, 1, i))]

\* BaseSection._compute_section_attrs: the along-section coordinate
ComputeS(xs, ys) == CumSum(StepLengths(xs, ys))

\* BaseSection.connect
Connect(c) ==
    IF ~IsBaseCube(c)
    THEN /\ ret' = Outcome("connect", c, "TypeError", NoValue)
         /\ UNCHANGED <<secVars, sv>>
    ELSE /\ cube' = c
         /\ _variables' = Cubes[c].variables
         /\ UNCHANGED <<secType, _path, y, sv>>
         /\ IF secType = "Strike" /\ ~CubeHasVar(c, "eta")
            THEN \* self.cube['eta'] raises in _compute_section_coords
                 /\ ret' = Outcome("connect", c, "LookupError", NoValue)
                 /\ UNCHANGED <<coordsNone, _x, _y, _s, _z, bound>>
            ELSE LET xs == IF secType = "Path" THEN PathX(_path) ELSE StrikeX(Cubes[c].nx)
                     ys == IF secType = "Path" THEN PathY(_path) ELSE StrikeY(y, Cubes[c].nx)
                 IN  /\ _x' = xs
                     /\ _y' = ys
                     /\ _s' = ComputeS(xs, ys)
                     /\ _z' = Cubes[c].z
                     /\ coordsNone' = FALSE
                     /\ bound' = c
                     /\ ret' = Outcome("connect", c, "ok", NoValue)

\* BaseSection.trace: np.column_stack((self._x, self._y))
TraceOf(xs, ys, isNone) ==
    IF isNone THEN << <<"None", "None">> >>
    ELSE [i \in 1..Len(xs) |-> <<xs[i], ys[i]>>]

Trace ==
    /\ ret' = Outcome("trace", NoValue, "ok", TraceOf(_x, _y, coordsNone))
    /\ UNCHANGED <<secVars, sv>>

\* PathSection.path: return self._trace, an attribute that is never assigned
PathAccessor ==
    /\ secType = "Path"
    /\ ret' = Outcome("path", NoValue, "AttributeError: no attribute '_trace'", NoValue)
    /\ UNCHANGED <<secVars, sv>>

\* --------------------------------------------------------- section variables
\* np.meshgrid(_s, _z); np.meshgrid(None, None) is a pair of 1 x 1 object arrays
Meshgrid(s, z, isNone) ==
    IF isNone THEN [S |-> << <<"None">> >>, Z |-> << <<"None">> >>]
    ELSE [S |-> [r \in 1..Len(z) |-> s], Z |-> [r \in 1..Len(z) |-> [k \in 1..Len(s) |-> z[r]]]]

\* BaseSectionVariable.__new__
BaseNew(variant, data, s, z, isNone, mask, maskNone) ==
    [variant |-> variant, knows |-> FALSE, hasFlag |-> FALSE, sNone |-> isNone, data |-> data,
     s |-> s, z |-> z,
     S |-> Meshgrid(s, z, isNone).S, Z |-> Meshgrid(s, z, isNone).Z,
     maskNone |-> maskNone, psvd_mask |-> mask, strat_attr |-> <<>>]

\* __init__ that sets the flag whatever _strat_attr is
DataSectionVariable_flagAlways(data, s, z, isNone, mask, maskNone, attr, attrNone) ==
    [BaseNew("DataSectionVariable", data, s, z, isNone, mask, maskNone)
        EXCEPT !.strat_attr = attr, !.knows = TRUE, !.hasFlag = TRUE]

\* DataSectionVariable.__init__: the only place that sets _knows_stratigraphy
\* (hasFlag) and strat_attr
DataSectionVariable(data, s, z, isNone, mask, maskNone, attr, attrNone) ==
    IF ~attrNone
    THEN [BaseNew("DataSectionVariable", data, s, z, isNone, mask, maskNone)
            EXCEPT !.strat_attr = attr, !.knows = TRUE, !.hasFlag = TRUE]
    ELSE [BaseNew("DataSectionVariable", data, s, z, isNone, mask, maskNone)
            EXCEPT !.knows = FALSE, !.hasFlag = TRUE]

\* StratigraphySectionVariable.__init__
StratigraphySectionVariable(data, s, z, isNone) ==
    BaseNew("StratigraphySectionVariable", data, s, z, isNone, <<>>, TRUE)

\* the slice taken as [:, self._x, self._y]
CubeSlice_swapped(c, var, ys, xs, isNone) ==
    IF isNone
    THEN [r \in 1..NZ(c) |->
            << << [yy \in 1..Cubes[c].ny |->
                     [xx \in 1..Cubes[c].nx |-> CubeData(c, var, r - 1, yy - 1, xx - 1)]] >> >>]
    ELSE [r \in 1..NZ(c) |-> [i \in 1..Len(xs) |-> CubeData(c, var, r - 1, xs[i], ys[i])]]

\* self.cube[var][:, self._y, self._x]; with _y = _x = None the index adds two
\* axes and selects nothing, giving shape (Z, 1, 1, ny, nx)
CubeSlice(c, var, ys, xs, isNone) ==
    IF isNone
    THEN [r \in 1..NZ(c) |->
            << << [yy \in 1..Cubes[c].ny |->
                     [xx \in 1..Cubes[c].nx |-> CubeData(c, var, r - 1, yy - 1, xx - 1)]] >> >>]
    ELSE [r \in 1..NZ(c) |-> [i \in 1..Len(xs) |-> CubeData(c, var, r - 1, ys[i], xs[i])]]

\* self.cube.strat_attr.psvd_idx[:, self._y, self._x]
PsvdSlice(c, ys, xs) ==
    [r \in 1..NZ(c) |-> [i \in 1..Len(xs) |-> CubePsvd(c, r - 1, ys[i], xs[i])]]

\* row-major list of the <<row, column>> positions (1-based) where mask holds
TrueCells(mask) ==
    LET all == Flatten([r \in 1..Rows(mask) |-> [k \in 1..Cols(mask) |-> <<r, k>>]])
    IN  SelectSeq(all, LAMBDA p : mask[p[1]][p[2]])

\* self.cube.strat_attr('section', self._y, self._x): each preserved cell is
\* stacked on the preserved cells below it in its column
StratAttr(c, ys, xs) ==
    LET mask == PsvdSlice(c, ys, xs)
        cells == TrueCells(mask)
    IN  [psvd_idx |-> mask,
         z_sp |-> [k \in 1..Len(cells) |->
                     Cardinality({r \in 1..(cells[k][1] - 1) : mask[r][cells[k][2]]})],
         s_sp |-> [k \in 1..Len(cells) |-> cells[k][2] - 1],
         psvd_flld |-> [r \in 1..NZ(c) |-> [i \in 1..Len(xs) |-> CubePsvdFlld(c, r - 1, ys[i], xs[i])]],
         strata |-> [r \in 1..NZ(c) |-> [i \in 1..Len(xs) |-> CubeStrata(c, r - 1, ys[i], xs[i])]]]

\* BaseSection.__getitem__: <<status, variable>>
GetItemResult(c, var, xs, ys, s, z, isNone) ==
    IF c # NoCube /\ Cubes[c].kind = "DataCube"
    THEN IF ~CubeHasVar(c, var) THEN <<"LookupError", NoSV>>
         ELSE IF ~isNone /\ ~InRange(c, ys, xs) THEN <<"IndexError", NoSV>>
         ELSE IF Cubes[c].knows_stratigraphy
              THEN <<"ok", DataSectionVariable(CubeSlice(c, var, ys, xs, isNone), s, z, isNone,
                                               PsvdSlice(c, ys, xs), FALSE,
                                               StratAttr(c, ys, xs), FALSE)>>
              ELSE <<"ok", DataSectionVariable(CubeSlice(c, var, ys, xs, isNone), s, z, isNone,
                                               <<>>, TRUE, <<>>, TRUE)>>
    ELSE IF c # NoCube /\ Cubes[c].kind = "StratigraphyCube"
    THEN IF ~CubeHasVar(c, var) THEN <<"LookupError", NoSV>>
         ELSE IF ~isNone /\ ~InRange(c, ys, xs) THEN <<"IndexError", NoSV>>
         ELSE <<"ok", StratigraphySectionVariable(CubeSlice(c, var, ys, xs, isNone), s, z, isNone)>>
    ELSE IF c = NoCube
    THEN <<"AttributeError: No cube connected", NoSV>>
    ELSE <<"TypeError", NoSV>>

GetItem(var) ==
    LET r == GetItemResult(cube, var, _x, _y, _s, _z, coordsNone)
    IN  /\ ret' = Outcome("__getitem__", var, r[1], IF r[1] = "ok" THEN r[2] ELSE NoValue)
        /\ sv' = IF r[1] = "ok" THEN r[2] ELSE sv
        /\ UNCHANGED secVars

\* ------------------------------------------------------- display projections
_spacetime_names == {"full", "spacetime", "as spacetime", "as_spacetime"}

\* the list without its short alias
_preserved_names_short == {"preserved", "as preserved", "as_preserved"}

_preserved_names == {"psvd", "preserved", "as preserved", "as_preserved"}

_stratigraphy_names == {"strat", "strata", "stratigraphy", "as stratigraphy", "as_stratigraphy"}

\* style=None
NoneKey == "<None>"

\* the keys callers pass: every listed alias, None, case and spacing variants
\* of listed aliases, and unrelated keys
StyleKeys ==
    {"full", "spacetime", "as spacetime", "as_spacetime",
     "psvd", "preserved", "as preserved", "as_preserved",
     "strat", "strata", "stratigraphy", "as stratigraphy", "as_stratigraphy",
     NoneKey, "Spacetime", "PSVD", "AS_PRESERVED", "As Stratigraphy", "bogus"}

\* _default_style of the two variants
DefaultStyle(v) ==
    IF v.variant = "DataSectionVariable" THEN "spacetime" ELSE "stratigraphy"

NoPreservation == "AttributeError: No preservation information."

NoSpacetime == "AttributeError: No spacetime or preserved information available."

BadStyle == "ValueError: Bad style argument"

Raise(status) == [status |-> status, value |-> NoValue]

Return(value) == [status |-> "ok", value |-> value]

\* a call that falls off the end of the method (Python returns None)
ReturnNone == [status |-> "returned None", value |-> NoValue]

\* a check that returns the flag and never raises
_check_knows_stratigraphy_noRaise(v) == Return(v.knows)

\* DataSectionVariable._check_knows_stratigraphy
_check_knows_stratigraphy(v) ==
    IF ~v.hasFlag THEN Raise("AttributeError: no attribute '_knows_stratigraphy'")
    ELSE IF ~v.knows THEN Raise(NoPreservation) ELSE Return(v.knows)

\* DataSectionVariable.as_preserved: np.ma.MaskedArray(self, ~self._psvd_mask)
as_preserved(v) ==
    LET chk == _check_knows_stratigraphy(v)
    IN  IF chk.status # "ok" THEN chk
        ELSE IF chk.value
             THEN Return([data |-> v.data,
                          mask |-> [r \in 1..Rows(v.psvd_mask) |->
                                      [k \in 1..Cols(v.psvd_mask) |-> ~v.psvd_mask[r][k]]]])
             ELSE ReturnNone

\* self[self.strat_attr['psvd_idx']]: boolean indexing, row-major
BoolIndex(data, mask) ==
    LET cells == TrueCells(mask) IN [k \in 1..Len(cells) |-> data[cells[k][1]][cells[k][2]]]

\* DataSectionVariable.as_stratigraphy: sparse.coo_matrix((data, (row, col)))
as_stratigraphy(v) ==
    LET chk == _check_knows_stratigraphy(v)
    IN  IF chk.status # "ok" THEN chk
        ELSE IF chk.value
             THEN LET a == v.strat_attr
                  IN  IF Len(a.z_sp) = 0
                      THEN Raise("ValueError: cannot infer dimensions from zero sized index arrays")
                      ELSE Return([shape |-> <<SeqMax(a.z_sp) + 1, SeqMax(a.s_sp) + 1>>,
                                   data |-> BoolIndex(v.data, a.psvd_idx),
                                   row |-> a.z_sp, col |-> a.s_sp])
             ELSE ReturnNone

\* coo_matrix.toarray(): entries at the same position are summed
ToArray(sp) ==
    [r \in 1..sp.shape[1] |->
        [k \in 1..sp.shape[2] |->
            SumSeq(SelectSeq([j \in 1..Len(sp.data) |->
                                IF sp.row[j] = r - 1 /\ sp.col[j] = k - 1 THEN sp.data[j] ELSE 0],
                             LAMBDA e : e # 0))]]

\* the tile repeated len(s) times instead of n times
Tile_wrongReps(s, n) == [r \in 1..Len(s) |-> s]

\* np.tile(self._s, (n, 1))
Tile(s, n) == [r \in 1..n |-> s]

\* DataSectionVariable.get_display_arrays
DataGetDisplayArrays(v, key) ==
    LET style == IF key = NoneKey THEN DefaultStyle(v) ELSE key
    IN  IF style \in _spacetime_names
        THEN Return(<<v.data, v.S, v.Z>>)
        ELSE IF style \in _preserved_names
        THEN LET p == as_preserved(v)
             IN  IF p.status = "returned None" THEN Return(<<"None", v.S, v.Z>>)
                 ELSE IF p.status # "ok" THEN p
                 ELSE Return(<<p.value, v.S, v.Z>>)
        ELSE IF style \in _stratigraphy_names
        THEN LET sp == as_stratigraphy(v)
             IN  IF sp.status = "returned None"
                 THEN Raise("AttributeError: 'NoneType' object has no attribute 'shape'")
                 ELSE IF sp.status # "ok" THEN sp
                 ELSE Return(<<ToArray(sp.value),
                               Tile(v.s, sp.value.shape[1]),
                               SubSeq(v.strat_attr.psvd_flld, 1, sp.value.shape[1])>>)
        ELSE Raise(BadStyle)

\* _reshape_long: np.vstack((X[:, :-1].flatten(), X[:, 1:].flatten())).T.reshape(-1, 2, 1)
DropLastCol(X) == [r \in 1..Len(X) |-> SubSeq(X[r], 1, Len(X[r]) - 1)]

DropFirstCol(X) == [r \in 1..Len(X) |-> SubSeq(X[r], 2, Len(X[r]))]

_reshape_long(X) ==
    LET left == Flatten(DropLastCol(X))
        right == Flatten(DropFirstCol(X))
    IN  [k \in 1..Len(left) |-> << <<left[k]>>, <<right[k]>> >>]

\* np.concatenate([x, y], axis=2) of two (N, 2, 1) arrays
Concat2(xa, ya) ==
    [k \in 1..Len(xa) |-> <<xa[k][1] \o ya[k][1], xa[k][2] \o ya[k][2]>>]

\* DataSectionVariable.get_display_lines
DataGetDisplayLines(v, key) ==
    LET style == IF key = NoneKey THEN DefaultStyle(v) ELSE key
        xa == _reshape_long(v.S)
    IN  IF style \in _spacetime_names
        THEN Return(<<DropLastCol(v.data), Concat2(xa, _reshape_long(v.Z))>>)
        ELSE IF style \in _preserved_names
        THEN LET chk == _check_knows_stratigraphy(v)
             IN  IF chk.status # "ok" THEN chk
                 ELSE IF ~chk.value THEN Raise("UnboundLocalError")
                 ELSE LET p == as_preserved(v).value
                      IN  Return(<<[data |-> DropLastCol(p.data), mask |-> DropLastCol(p.mask)],
                                   Concat2(xa, _reshape_long(v.Z))>>)
        ELSE IF style \in _stratigraphy_names
        THEN LET chk == _check_knows_stratigraphy(v)
             IN  IF chk.status # "ok" THEN chk
                 ELSE IF ~chk.value THEN Raise("UnboundLocalError")
                 ELSE Return(<<DropLastCol(v.data),
                               Concat2(xa, _reshape_long(v.strat_attr.strata))>>)
        ELSE Raise(BadStyle)

\* np.min / np.max of a 2-D array; of the 1 x 1 object array holding None
ArrMin(A, isNone) == IF isNone THEN "None" ELSE SetMin(Cells(A))

ArrMax(A, isNone) == IF isNone THEN "None" ELSE SetMax(Cells(A))

\* v * 1.5 as the exact fraction 3v / 2
Times1p5(v) == [num |-> 3 * v, den |-> 2]

\* DataSectionVariable.get_display_limits
DataGetDisplayLimits(v, key) ==
    LET style == IF key = NoneKey THEN DefaultStyle(v) ELSE key
    IN  IF style \in _spacetime_names \/ style \in _preserved_names
        THEN Return(<<ArrMin(v.S, v.sNone), ArrMax(v.S, v.sNone),
                      ArrMin(v.Z, v.sNone), ArrMax(v.Z, v.sNone)>>)
        ELSE IF style \in _stratigraphy_names
        THEN LET chk == _check_knows_stratigraphy(v)
             IN  IF chk.status # "ok" THEN chk
                 ELSE IF ~chk.value THEN ReturnNone
                 ELSE IF Cells(v.strat_attr.strata) = {}
                      THEN Raise("ValueError: zero-size array to reduction operation")
                      ELSE Return(<<ArrMin(v.S, v.sNone), ArrMax(v.S, v.sNone),
                                    SetMin(Cells(v.strat_attr.strata)),
                                    Times1p5(SetMax(Cells(v.strat_attr.strata)))>>)
        ELSE Raise(BadStyle)

\* a check that returns instead of raising
_check_knows_spacetime_noRaise(v) == Return(TRUE)

\* StratigraphySectionVariable._check_knows_spacetime: raises always
_check_knows_spacetime(v) == Raise(NoSpacetime)

\* StratigraphySectionVariable.get_display_arrays
StratGetDisplayArrays(v, key) ==
    LET style == IF key = NoneKey THEN DefaultStyle(v) ELSE key
    IN  IF style \in _spacetime_names
        THEN LET chk == _check_knows_spacetime(v) IN IF chk.status # "ok" THEN chk ELSE ReturnNone
        ELSE IF style \in _preserved_names
        THEN LET chk == _check_knows_spacetime(v) IN IF chk.status # "ok" THEN chk ELSE ReturnNone
        ELSE IF style \in _stratigraphy_names
        THEN Return(<<v.data, v.S, v.Z>>)
        ELSE Raise(BadStyle)

\* StratigraphySectionVariable.get_display_lines
StratGetDisplayLines(v, key) ==
    LET style == IF key = NoneKey THEN DefaultStyle(v) ELSE key
    IN  IF style \in _spacetime_names
        THEN LET chk == _check_knows_spacetime(v) IN IF chk.status # "ok" THEN chk ELSE ReturnNone
        ELSE IF style \in _preserved_names
        THEN LET chk == _check_knows_spacetime(v) IN IF chk.status # "ok" THEN chk ELSE ReturnNone
        ELSE IF style \in _stratigraphy_names
        THEN Raise("NotImplementedError")
        ELSE Raise(BadStyle)

\* StratigraphySectionVariable.get_display_limits
StratGetDisplayLimits(v, key) ==
    LET style == IF key = NoneKey THEN DefaultStyle(v) ELSE key
    IN  IF style \in _spacetime_names
        THEN LET chk == _check_knows_spacetime(v) IN IF chk.status # "ok" THEN chk ELSE ReturnNone
        ELSE IF style \in _preserved_names
        THEN LET chk == _check_knows_spacetime(v) IN IF chk.status # "ok" THEN chk ELSE ReturnNone
        ELSE IF style \in _stratigraphy_names
        THEN Return(<<ArrMin(v.S, v.sNone), ArrMax(v.S, v.sNone),
                      ArrMin(v.Z, v.sNone), Times1p5(ArrMax(v.Z, v.sNone))>>)
        ELSE Raise(BadStyle)

IsData(v) == v.variant = "DataSectionVariable"

Call(op, arg, r) ==
    /\ ret' = Outcome(op, arg, r.status, r.value)
    /\ UNCHANGED <<secVars, sv>>

AsPreserved == IsData(sv) /\ Call("as_preserved", NoValue, as_preserved(sv))

AsStratigraphy == IsData(sv) /\ Call("as_stratigraphy", NoValue, as_stratigraphy(sv))

GetDisplayArrays(key) ==
    /\ sv.variant # "None"
    /\ Call("get_display_arrays", key,
            IF IsData(sv) THEN DataGetDisplayArrays(sv, key) ELSE StratGetDisplayArrays(sv, key))

GetDisplayLines(key) ==
    /\ sv.variant # "None"
    /\ Call("get_display_lines", key,
            IF IsData(sv) THEN DataGetDisplayLines(sv, key) ELSE StratGetDisplayLines(sv, key))

GetDisplayLimits(key) ==
    /\ sv.variant # "None"
    /\ Call("get_display_limits", key,
            IF IsData(sv) THEN DataGetDisplayLimits(sv, key) ELSE StratGetDisplayLimits(sv, key))

\* BaseSectionVariable.__array_finalize__: what a view or a slice of obj with
\* the given data carries.  The mask, _s and _z are taken from obj as they
\* are and the meshes are rebuilt; __init__ does not run, so the new object
\* has neither _knows_stratigraphy nor strat_attr.
ArrayFinalize(obj, data) ==
    [variant |-> obj.variant, knows |-> FALSE, hasFlag |-> FALSE, sNone |-> obj.sNone,
     data |-> data, s |-> obj.s, z |-> obj.z,
     S |-> Meshgrid(obj.s, obj.z, obj.sNone).S, Z |-> Meshgrid(obj.s, obj.z, obj.sNone).Z,
     maskNone |-> obj.maskNone, psvd_mask |-> obj.psvd_mask, strat_attr |-> <<>>]

\* v[:, :-1], the slice get_display_lines itself takes
SliceDropLast ==
    /\ sv.variant # "None"
    /\ sv' = ArrayFinalize(sv, DropLastCol(sv.data))
    /\ ret' = Outcome("slice", "[:, :-1]", "ok", NoValue)
    /\ UNCHANGED secVars

\* v.view() or v[:]
ViewAll ==
    /\ sv.variant # "None"
    /\ sv' = ArrayFinalize(sv, sv.data)
    /\ ret' = Outcome("view", NoValue, "ok", NoValue)
    /\ UNCHANGED secVars

Next ==
    \/ \E c \in CubeIds : Connect(c)
    \/ AsPreserved
    \/ AsStratigraphy
    \/ \E key \in StyleKeys : GetDisplayArrays(key)
    \/ \E key \in StyleKeys : GetDisplayLines(key)
    \/ \E key \in StyleKeys : GetDisplayLimits(key)
    \/ \E var \in VarNames : GetItem(var)
    \/ Trace
    \/ PathAccessor

\* ------------------------------------------------------------------ claims
DisplayOps == {"get_display_arrays", "get_display_lines", "get_display_limits"}

IsStrat(v) == v.variant = "StratigraphySectionVariable"

\* the call ret records was made on the variable sv holds
OnData == IsData(sv) /\ ret.op \in DisplayOps \cup {"as_preserved", "as_stratigraphy"}

OnStrat == IsStrat(sv) /\ ret.op \in DisplayOps

\* sv is what section[var] returns in the current state
IsCurrentSlice(var) ==
    LET r == GetItemResult(cube, var, _x, _y, _s, _z, coordsNone)
    IN  /\ r[1] = "ok"
        /\ r[2].variant = sv.variant
        /\ r[2].knows = sv.knows
        /\ r[2].hasFlag = sv.hasFlag
        /\ r[2].sNone = sv.sNone
        /\ r[2] = sv

\* the footprint lies inside the bound cube
FootprintInside ==
    /\ \A i \in DOMAIN _x : _x[i] < Cubes[cube].nx
    /\ \A i \in DOMAIN _y : _y[i] < Cubes[cube].ny

\* C1: section[var] picks the variant from the kind of the bound cube alone.
\* For a variable the cube holds and a footprint inside the cube: a DataCube
\* that knows stratigraphy gives a DataSectionVariable with knows_stratigraphy
\* true, the preservation mask and the stratigraphy attributes of the
\* footprint; a DataCube that does not gives a DataSectionVariable with the
\* flag false and no mask; a StratigraphyCube gives a
\* StratigraphySectionVariable.  Every other bound cube gives a TypeError for
\* every variable name, and no variable.
C1_VariantFromCubeKind ==
    (ret.op = "__getitem__" /\ cube # NoCube) =>
        LET k == Cubes[cube].kind
            usable == ret.arg \in Cubes[cube].variables /\ ~coordsNone /\ FootprintInside
        IN  /\ k \notin {"DataCube", "StratigraphyCube"} => ret.status = "TypeError"
            /\ (k \in {"DataCube", "StratigraphyCube"} /\ usable) => ret.status = "ok"
            /\ (k = "DataCube" /\ usable /\ ret.status = "ok" /\ Cubes[cube].knows_stratigraphy) =>
                  /\ ret.value.variant = "DataSectionVariable"
                  /\ ret.value.knows
                  /\ ~ret.value.maskNone
                  /\ Rows(ret.value.psvd_mask) = Len(Cubes[cube].z)
                  /\ \A r \in 1..Len(Cubes[cube].z) : \A i \in 1..Len(_x) :
                        /\ ret.value.psvd_mask[r][i] = CubePsvd(cube, r - 1, _y[i], _x[i])
                        /\ ret.value.strat_attr.psvd_idx[r][i] = CubePsvd(cube, r - 1, _y[i], _x[i])
                        /\ ret.value.strat_attr.strata[r][i] = CubeStrata(cube, r - 1, _y[i], _x[i])
            /\ (k = "DataCube" /\ ret.status = "ok" /\ ~Cubes[cube].knows_stratigraphy) =>
                  /\ ret.value.variant = "DataSectionVariable"
                  /\ ~ret.value.knows
                  /\ ret.value.maskNone
            /\ (k = "StratigraphyCube" /\ ret.status = "ok") =>
                  ret.value.variant = "StratigraphySectionVariable"

C1_Witness ==
    /\ ret.op = "__getitem__"
    /\ ret.status = "ok"
    /\ cube # NoCube
    /\ Cubes[cube].knows_stratigraphy
    /\ ret.value.knows
    /\ Len(_x) >= 2

\* C2: for a section bound to a DataCube with coordinates computed, the data
\* that section[var].get_display_arrays('spacetime' or None) returns is the
\* direct slice cube[var][:, _y, _x] cell for cell, of shape (layers of the
\* cube, len(_x)), and the meshes are np.meshgrid(_s, _z) of the section.
C2_SpacetimeRoundTrip ==
    \A var \in VarNames :
        (/\ ret.op = "get_display_arrays"
         /\ ret.arg \in {"spacetime", NoneKey}
         /\ cube # NoCube
         /\ Cubes[cube].kind = "DataCube"
         /\ ~coordsNone
         /\ IsCurrentSlice(var)) =>
            /\ ret.status = "ok"
            /\ Rows(ret.value[1]) = Len(Cubes[cube].z)
            /\ \A r \in 1..Len(Cubes[cube].z) :
                  /\ Len(ret.value[1][r]) = Len(_x)
                  /\ \A i \in 1..Len(_x) :
                        ret.value[1][r][i] = CubeData(cube, var, r - 1, _y[i], _x[i])
            /\ Rows(ret.value[2]) = Len(_z)
            /\ Rows(ret.value[3]) = Len(_z)
            /\ \A r \in 1..Len(_z) :
                  /\ ret.value[2][r] = _s
                  /\ ret.value[3][r] = [k \in 1..Len(_s) |-> _z[r]]

C2_Witness ==
    /\ ret.op = "get_display_arrays"
    /\ ret.arg = "spacetime"
    /\ ret.status = "ok"
    /\ cube # NoCube
    /\ Cubes[cube].kind = "DataCube"
    /\ ~coordsNone
    /\ IsCurrentSlice("velocity")
    /\ \E i \in 1..Len(_x) : _x[i] # _y[i]

\* C3: on a DataSectionVariable built without stratigraphy attributes,
\* as_preserved, as_stratigraphy, and get_display_arrays and
\* get_display_lines with any preserved or stratigraphy alias, raise
\* AttributeError('No preservation information.') and return nothing.
C3_NoStratigraphyRaises ==
    (/\ OnData
     /\ sv.hasFlag
     /\ ~sv.knows
     /\ \/ ret.op \in {"as_preserved", "as_stratigraphy"}
        \/ /\ ret.op \in {"get_display_arrays", "get_display_lines"}
           /\ ret.arg \in _preserved_names \cup _stratigraphy_names) =>
        /\ ret.status = NoPreservation
        /\ ret.value = NoValue

C3_Witness ==
    /\ OnData
    /\ ~sv.knows
    /\ ret.op = "get_display_lines"
    /\ ret.arg = "psvd"
    /\ ret.status = NoPreservation

\* C4: on a StratigraphySectionVariable, get_display_arrays,
\* get_display_lines and get_display_limits with any spacetime or preserved
\* alias raise the capability error; with a stratigraphy alias
\* get_display_arrays returns (data, S, Z) of the variable unchanged and
\* get_display_lines raises NotImplementedError.
C4_StratigraphyOnly ==
    OnStrat =>
        /\ ret.arg \in _spacetime_names \cup _preserved_names =>
              /\ ret.status = NoSpacetime
              /\ ret.value = NoValue
        /\ (ret.op = "get_display_arrays" /\ ret.arg \in _stratigraphy_names) =>
              /\ ret.status = "ok"
              /\ ret.value = <<sv.data, sv.S, sv.Z>>
        /\ (ret.op = "get_display_lines" /\ ret.arg \in _stratigraphy_names) =>
              ret.status = "NotImplementedError"

C4_Witness ==
    /\ OnStrat
    /\ ret.op = "get_display_limits"
    /\ ret.arg = "as preserved"
    /\ ret.status = NoSpacetime

NotConnected == "AttributeError: No cube connected"

\* C5: binding lifecycle.  While no connect has returned, every section[var]
\* raises the not-connected error.  Afterwards the cube, the variables, z and
\* the coordinates are those of the most recent connect that returned, and a
\* connect that raised has changed none of them.
C5_BindingLifecycle ==
    /\ (bound = NoCube /\ ret.op = "__getitem__") => ret.status = NotConnected
    /\ bound # NoCube =>
          /\ cube = bound
          /\ _variables = Cubes[bound].variables
          /\ ~coordsNone
          /\ _z = Cubes[bound].z

\* the key a caller's spelling denotes once letter case and the choice between
\* space and underscore are ignored
Normalised(key) ==
    CASE key = "Spacetime" -> "spacetime"
      [] key = "PSVD" -> "psvd"
      [] key = "AS_PRESERVED" -> "as_preserved"
      [] key = "As Stratigraphy" -> "as_stratigraphy"
      [] key = "as spacetime" -> "as_spacetime"
      [] key = "as preserved" -> "as_preserved"
      [] key = "as stratigraphy" -> "as_stratigraphy"
      [] OTHER -> key

SpacetimeKeys == {"full", "spacetime", "as_spacetime"}

PreservedKeys == {"psvd", "preserved", "as_preserved"}

StratigraphyKeys == {"strat", "strata", "stratigraphy", "as_stratigraphy"}

\* the canonical key of the style a normalised key belongs to
Canonical(key) ==
    IF key \in SpacetimeKeys THEN "spacetime"
    ELSE IF key \in PreservedKeys THEN "preserved"
    ELSE "stratigraphy"

\* the outcome of a display method of variable v
Display(v, op, key) ==
    IF op = "get_display_arrays"
    THEN IF IsData(v) THEN DataGetDisplayArrays(v, key) ELSE StratGetDisplayArrays(v, key)
    ELSE IF op = "get_display_lines"
    THEN IF IsData(v) THEN DataGetDisplayLines(v, key) ELSE StratGetDisplayLines(v, key)
    ELSE IF IsData(v) THEN DataGetDisplayLimits(v, key) ELSE StratGetDisplayLimits(v, key)

SameOutcome(r, q) == r.status = q.status /\ r.value = q.value

\* C6 as stated: a key that matches an alias once case and spacing are
\* ignored gives the result of the canonical key of its style, and only keys
\* that match no alias that way give the value error.
C6_Original ==
    (ret.op \in DisplayOps /\ sv.variant # "None" /\ ret.arg # NoneKey) =>
        IF Normalised(ret.arg) \in SpacetimeKeys \cup PreservedKeys \cup StratigraphyKeys
        THEN ret.status = Display(sv, ret.op, Canonical(Normalised(ret.arg))).status
        ELSE ret.status = BadStyle

\* C6 (amended): a key is matched by exact string equality with the listed
\* aliases.  A listed alias gives the outcome of the canonical key of its
\* style; every other key, the case variants of the aliases included, gives
\* the value error.
C6_ExactAliases ==
    (ret.op \in DisplayOps /\ sv.variant # "None" /\ ret.arg # NoneKey) =>
        IF ret.arg \in {"full", "spacetime", "as spacetime", "as_spacetime",
                        "psvd", "preserved", "as preserved", "as_preserved",
                        "strat", "strata", "stratigraphy", "as stratigraphy", "as_stratigraphy"}
        THEN SameOutcome(ret, Display(sv, ret.op, Canonical(Normalised(ret.arg))))
        ELSE ret.status = BadStyle /\ ret.value = NoValue

C6_Witness ==
    /\ ret.op = "get_display_arrays"
    /\ IsData(sv)
    /\ sv.knows
    /\ ret.arg = "psvd"
    /\ ret.status = "ok"

\* C7: a connected Path section uses the path verbatim: trace is the path,
\* row for row and column for column, section[var] samples the cube at cell
\* (x, y) = (path[i][0], path[i][1]), and the path accessor returns the trace.
C7_PathVerbatim ==
    (secType = "Path" /\ ~coordsNone) =>
        /\ TraceOf(_x, _y, coordsNone) = _path
        /\ ret.op = "trace" => ret.value = _path
        /\ ret.op = "path" => ret.status = "ok"
        /\ (ret.op = "__getitem__" /\ ret.status = "ok") =>
              \A r \in 1..Rows(ret.value.data) : \A i \in 1..Len(_path) :
                  ret.value.data[r][i] = CubeData(cube, ret.arg, r - 1, _path[i][2], _path[i][1])

\* d is the fixed-point square root of n
IsSqrt(d, n) == d * d <= n * Scale * Scale /\ n * Scale * Scale < (d + 1) * (d + 1)

Sq(n) == n * n

\* C8: for a connected Path section, s has as many entries as the path has
\* points, as do x and y; s[0] = 0; each later s[i] is s[i-1] plus the
\* Euclidean distance between points i-1 and i; so s never decreases, and
\* increases strictly where consecutive points differ.
C8_AlongSectionCoordinate ==
    (secType = "Path" /\ ~coordsNone) =>
        /\ Len(_x) = Len(_path)
        /\ Len(_y) = Len(_path)
        /\ Len(_s) = Len(_path)
        /\ _s[1] = 0
        /\ \A i \in 2..Len(_s) :
              /\ IsSqrt(_s[i] - _s[i - 1], Sq(_x[i] - _x[i - 1]) + Sq(_y[i] - _y[i - 1]))
              /\ _s[i] >= _s[i - 1]
              /\ _path[i] # _path[i - 1] => _s[i] > _s[i - 1]

\* C9: connecting a Strike section with strike coordinate y to any cube that
\* is nx cells wide succeeds, whatever variables the cube holds, and leaves
\* x = 0..nx-1, y repeated nx times, len(s) = nx, s[0] = 0 and unit steps.
C9_StrikeCoordinates ==
    (secType = "Strike" /\ ret.op = "connect" /\ IsBaseCube(ret.arg)) =>
        LET nx == Cubes[ret.arg].nx
        IN  /\ ret.status = "ok"
            /\ ~coordsNone
            /\ _x = [i \in 1..nx |-> i - 1]
            /\ _y = [i \in 1..nx |-> y]
            /\ Len(_s) = nx
            /\ _s[1] = 0
            /\ \A i \in 2..nx : _s[i] = _s[i - 1] + Scale

\* the call ret records is get_display_arrays with a stratigraphy alias on a
\* DataSectionVariable that knows stratigraphy, and it returned arrays
StratigraphyArraysReturned ==
    /\ OnData
    /\ sv.knows
    /\ ret.op = "get_display_arrays"
    /\ ret.arg \in _stratigraphy_names
    /\ ret.status = "ok"

\* C10 as stated: the compacted array has at most Z rows and the X mesh has
\* as many columns as the compacted array has rows.
C10_Original ==
    StratigraphyArraysReturned =>
        /\ Rows(ret.value[1]) <= Rows(sv.data)
        /\ Cols(ret.value[2]) = Rows(ret.value[1])

\* C10 (amended): the compacted array has at most Z rows, and the X mesh has
\* as many rows as the compacted array and len(s) columns.
C10_CompactedShape ==
    StratigraphyArraysReturned =>
        /\ Rows(ret.value[1]) <= Rows(sv.data)
        /\ Rows(ret.value[2]) = Rows(ret.value[1])
        /\ \A r \in 1..Rows(ret.value[2]) : Len(ret.value[2][r]) = Len(sv.s)

C10_Witness ==
    /\ StratigraphyArraysReturned
    /\ Rows(ret.value[1]) < Rows(sv.data)
    /\ Len(sv.s) >= 2

\* the Y array get_display_lines pairs with S for the style of key: the Z mesh
\* for spacetime and preserved styles, the strata boundaries for stratigraphy
LinesY(v, key) ==
    IF key \in _stratigraphy_names THEN v.strat_attr.strata ELSE v.Z

\* the values get_display_lines returned, as a plain array
LinesValues(key, value) ==
    IF key \in _preserved_names THEN value.data ELSE value

\* C11: for a DataSectionVariable with data of shape (Z, M), M >= 1,
\* get_display_lines with a style the variable has information for returns
\* Z*(M-1) segments and Z*(M-1) values; the segment at row-major position
\* r*(M-1)+c joins (S[r,c], Y[r,c]) to (S[r,c+1], Y[r,c+1]) and its value is
\* data[r,c], where Y is the Z mesh for the spacetime and preserved styles
\* and the strata array for the stratigraphy style.
C11_LineSegments ==
    (/\ OnData
     /\ ret.op = "get_display_lines"
     /\ ret.status = "ok"
     /\ ~sv.sNone
     /\ Cols(sv.data) >= 1) =>
        LET nz == Rows(sv.data)
            m == Cols(sv.data)
            values == LinesValues(ret.arg, ret.value[1])
            segments == ret.value[2]
            Y == LinesY(sv, ret.arg)
        IN  /\ Len(segments) = nz * (m - 1)
            /\ Rows(values) = nz
            /\ \A r \in 1..nz : Len(values[r]) = m - 1
            /\ \A r \in 1..nz : \A k \in 1..(m - 1) :
                  /\ segments[(r - 1) * (m - 1) + k]
                        = << <<sv.S[r][k], Y[r][k]>>, <<sv.S[r][k + 1], Y[r][k + 1]>> >>
                  /\ values[r][k] = sv.data[r][k]

\* C12: the preservation mask of a Section Variable, when it has one, has the
\* shape of the variable's data; for the variables section[var] returns and
\* for every view or slice derived from them.
C12_MaskShape ==
    (sv.variant # "None" /\ ~sv.maskNone) =>
        /\ Rows(sv.psvd_mask) = Rows(sv.data)
        /\ \A r \in 1..Rows(sv.data) : Len(sv.psvd_mask[r]) = Len(sv.data[r])

\* C13: for a Section Variable of either variant and any style key, None and
\* unrecognised keys included, get_display_limits returns a bounding box
\* exactly when get_display_arrays with the same key returns arrays, and
\* raises otherwise.
C13_LimitsGatedLikeArrays ==
    (ret.op = "get_display_limits" /\ sv.variant # "None") =>
        (ret.status = "ok" <=> Display(sv, "get_display_arrays", ret.arg).status = "ok")

\* the section alone: binding, coordinates and slicing
NextCoords ==
    \/ \E c \in CubeIds : Connect(c)
    \/ \E var \in VarNames : GetItem(var)
    \/ Trace
    \/ PathAccessor

\* the section, and views and slices of the variables it returns
NextViews ==
    \/ \E c \in CubeIds : Connect(c)
    \/ \E var \in VarNames : GetItem(var)
    \/ SliceDropLast
    \/ ViewAll
    \/ AsPreserved

\* sections over short paths, with every operation of the variables
Spec == Init /\ [][Next]_vars

\* sections over all bounded paths, with the operations of the section
SpecCoords == InitCoords /\ [][NextCoords]_vars

\* sections over short paths, with views and slices of their variables
SpecViews == Init /\ [][NextViews]_vars
====
